---- MODULE Spec2Model ----
(***************************************************************************)
(* Model of src/bot.py: a Telegram bot relaying user text to a generative  *)
(* model and streaming the reply into one editable message.                *)
(*                                                                         *)
(* Text is a sequence of code points, each written as a one-element        *)
(* string; "THINK" stands for the placeholder glyph (U+1F914), "CURSOR"    *)
(* for the typing cursor glyph (U+258C), "BACKTICK" for the grave accent,  *)
(* "E_ACUTE" for a multi-byte ordinary character.  "XRUN" stands for a run *)
(* of BUFFER_SIZE + 1 letters x, a letter that occurs nowhere else, so     *)
(* that two texts are equal exactly when their sequences are.  len() of a  *)
(* Python str counts code points, as len does here.                        *)
(***************************************************************************)
EXTENDS Integers, Sequences, FiniteSets, TLC

\* ------------------------------------------------------------------ bounds
MaxUpdates == 2
MaxPending == 1
MaxFragments == 3
HelloThreshold == 4

\* ------------------------------------------------------- program constants
BUFFER_SIZE == 75

Chats == {1, 2}
NoChat == 0
NoSession == 0
NoMessage == 0

\* -------------------------------------------------------------------- text
\* Code points an element of a text stands for.
Weight(c) == IF c = "XRUN" THEN BUFFER_SIZE + 1 ELSE 1

RECURSIVE len(_)
len(s) == IF s = <<>> THEN 0 ELSE Weight(Head(s)) + len(Tail(s))

Placeholder == <<"THINK">>
Cursor == <<" ", "CURSOR">>

Reserved ==
    << "_", "*", "[", "]", "(", ")", "~", "BACKTICK", ">", "#", "+", "-", "=", "|",
       "{", "}", ".", "!" >>

\* A replacement that stops after the first occurrence.
RECURSIVE str_replace_First(_, _, _)
str_replace_First(s, old, new) ==
    IF Len(s) = 0 THEN <<>>
    ELSE IF Head(s) = old THEN new \o Tail(s)
    ELSE <<Head(s)>> \o str_replace_First(Tail(s), old, new)

\* str.replace(old, new) for a one-character pattern: every occurrence of
\* old becomes new, every other character is kept (evaluated by halves).
RECURSIVE str_replace(_, _, _)
str_replace(s, old, new) ==
    IF Len(s) = 0 THEN <<>>
    ELSE IF Len(s) = 1 THEN (IF s[1] = old THEN new ELSE s)
    ELSE LET h == Len(s) \div 2 IN
             str_replace(SubSeq(s, 1, h), old, new)
             \o str_replace(SubSeq(s, h + 1, Len(s)), old, new)

RECURSIVE escape_from(_, _)
escape_from(s, i) ==
    IF i > Len(Reserved) THEN s
    ELSE escape_from(str_replace(s, Reserved[i], <<"\\", Reserved[i]>>), i + 1)

escape_chain(s) == escape_from(s, 1)

\* The fragments the generation source may yield.
Hel == <<"H", "e", "l">>
Lo == <<"l", "o", ",", " ">>
World == <<"w", "o", "r", "l", "d", "!">>
Long == <<"XRUN">>
Fragments == {Hel, Lo, World, Long, Placeholder}

\* Lines 129-165 on each of these fragments.
Escaped == [f \in Fragments |-> escape_chain(f)]

VARIABLES
    update_queue,        \* updates fetched and not yet dispatched
    turn,                \* number of the update being (or last) handled
    handling,            \* the update being handled: [chat_id, kind]
    pc,                  \* position of the running handler
    chat_sessions,       \* chat id -> session id (NoSession: absent)
    next_session,
    messages,            \* message id -> [chat_id, turn, text]: what is shown
    next_message_id,
    placeholder_message, \* message id of this turn's placeholder
    chunks,              \* raw fragments consumed in this turn
    gen,                 \* the generation source in this turn
    full_response_text,
    last_sent_text,
    buffer_size,
    edit_calls,          \* the edit_message_text calls of this handler call,
                         \* each with whether its text is what the message
                         \* showed when it was issued
    in_flight,           \* message id -> edit calls issued and not returned
    replies,             \* the reply_text calls of this handler call
    fragments_total,     \* fragments yielded so far, over all turns
    probe,               \* an input of the escape chain and what it becomes
    source,              \* the fragments the generation source may yield
    chat,                \* the session this turn talks to (line 106)
    since_flush,         \* time units since the stream started or the last
                         \* successful edit
    arrivals             \* per chunk of this turn: the time waited and the
                         \* unsent length when it arrived

vars ==
    << update_queue, turn, handling, pc, chat_sessions, next_session,
       messages, next_message_id, placeholder_message, chunks, gen,
       full_response_text, last_sent_text, buffer_size, edit_calls, in_flight,
       replies, fragments_total, probe, source, chat, since_flush, arrivals >>

environment == << probe, source >>

timing == << since_flush, arrivals >>

handler_locals ==
    << placeholder_message, chunks, gen, full_response_text, last_sent_text >>

InitWith(threshold) ==
    /\ update_queue = <<>>
    /\ turn = 0
    /\ handling = [chat_id |-> NoChat, kind |-> "none"]
    /\ pc = "idle"
    /\ chat_sessions = [c \in Chats |-> NoSession]
    /\ next_session = 1
    /\ messages = <<>>
    /\ next_message_id = 1
    /\ placeholder_message = NoMessage
    /\ chunks = <<>>
    /\ gen = "none"
    /\ full_response_text = <<>>
    /\ last_sent_text = <<>>
    /\ buffer_size = threshold
    /\ edit_calls = <<>>
    /\ in_flight = <<>>
    /\ replies = <<>>
    /\ fragments_total = 0
    /\ chat = NoSession
    /\ since_flush = 0
    /\ arrivals = <<>>

NoProbe ==
    [step |-> "none", input |-> <<>>, escaped |-> <<>>, piecewise |-> {},
     unescaped |-> <<>>]

Init ==
    /\ InitWith(BUFFER_SIZE)
    /\ probe = NoProbe
    /\ source = {World, Long, Placeholder}


\* ------------------------------------------------------- the collaborators
\* edit_message_text of the transport: "not modified" when the text is what
\* the message already shows, otherwise accepted, rejected as malformed
\* markup, or failed for another reason (network, permission).
EditOutcomes(m, text) ==
    IF messages[m].text = text THEN {"not_modified", "fatal"}
    ELSE {"ok", "malformed", "fatal"}

Idle == pc \in {"idle", "done"}

\* An update arrives from a user: a text message or the /new command.
ReceiveUpdate(c, k) ==
    /\ Len(update_queue) < MaxPending
    /\ turn + Len(update_queue) < MaxUpdates
    /\ update_queue' = Append(update_queue, [chat_id |-> c, kind |-> k])
    /\ UNCHANGED << turn, handling, pc, chat_sessions, next_session, messages,
                    next_message_id, handler_locals, buffer_size, edit_calls,
                    in_flight, replies, fragments_total, environment, timing, chat >>

\* ---------------------------------------------------------------- run_bot
\* The application is built without concurrent updates: an update is
\* dispatched only when the handler of the previous one has returned.
CanDispatch(k) ==
    /\ Idle
    /\ update_queue # <<>>
    /\ Head(update_queue).kind = k

\* ------------------------------------------------------------ new_command
\* A command that empties the whole map.
WithoutSession_ClearAll(sessions, c) == [k \in Chats |-> NoSession]

\* Lines 90-91: del chat_sessions[chat_id] when present.
WithoutSession(sessions, c) == [sessions EXCEPT ![c] = NoSession]

new_command ==
    /\ CanDispatch("new")
    /\ LET c == Head(update_queue).chat_id IN
        /\ update_queue' = Tail(update_queue)
        /\ turn' = turn + 1
        /\ handling' = [chat_id |-> c, kind |-> "new"]
        /\ chat_sessions' = WithoutSession(chat_sessions, c)
        /\ replies' = << [turn |-> turn + 1, chat_id |-> c, text |-> "cleared"] >>
        /\ edit_calls' = <<>>
        /\ pc' = "idle"
    /\ UNCHANGED << next_session, messages, next_message_id,
                    handler_locals, buffer_size, in_flight, fragments_total, environment, timing, chat >>

\* --------------------------------------------------------- handle_message
\* Lines 96-99: a new call of the handler, with fresh locals.
HandleMessage ==
    /\ CanDispatch("text")
    /\ update_queue' = Tail(update_queue)
    /\ turn' = turn + 1
    /\ handling' = [chat_id |-> Head(update_queue).chat_id, kind |-> "text"]
    /\ placeholder_message' = NoMessage
    /\ chunks' = <<>>
    /\ gen' = "none"
    /\ full_response_text' = <<>>
    /\ last_sent_text' = <<>>
    /\ edit_calls' = <<>>
    /\ replies' = <<>>
    /\ chat' = NoSession
    /\ since_flush' = 0
    /\ arrivals' = <<>>
    /\ pc' = "session"
    /\ UNCHANGED << chat_sessions, next_session, messages, next_message_id,
                    buffer_size, in_flight, fragments_total, environment >>

\* Lines 102-106: insert the chat's session if absent.
StartSession ==
    /\ pc = "session"
    /\ IF chat_sessions[handling.chat_id] = NoSession
       THEN /\ chat_sessions' =
                  [chat_sessions EXCEPT ![handling.chat_id] = next_session]
            /\ next_session' = next_session + 1
       ELSE UNCHANGED << chat_sessions, next_session >>
    /\ chat' = chat_sessions'[handling.chat_id]
    /\ pc' = "placeholder"
    /\ UNCHANGED << update_queue, turn, handling, messages,
                    next_message_id, handler_locals, buffer_size, edit_calls,
                    in_flight, replies, fragments_total, environment, timing >>

\* Line 112: the placeholder message, a new message of the chat.
SendPlaceholder ==
    /\ pc = "placeholder"
    /\ placeholder_message' = next_message_id
    /\ messages' = Append(messages, [chat_id |-> handling.chat_id,
                                     turn |-> turn, text |-> Placeholder])
    /\ in_flight' = Append(in_flight, 0)
    /\ next_message_id' = next_message_id + 1
    /\ replies' = Append(replies, [turn |-> turn, chat_id |-> handling.chat_id,
                                   text |-> "placeholder"])
    /\ pc' = "request"
    /\ UNCHANGED << update_queue, turn, handling, chat_sessions,
                    next_session, chunks, gen, full_response_text,
                    last_sent_text, buffer_size, edit_calls, fragments_total, environment, timing, chat >>

\* Lines 115-125: the generation request, then the loop's locals.
SendRequest ==
    /\ pc = "request"
    /\ \/ /\ gen' = "streaming"
          /\ pc' = "loop"
       \/ /\ gen' = "error"
          /\ pc' = "except"
    /\ full_response_text' = <<>>
    /\ last_sent_text' = <<>>
    /\ UNCHANGED << update_queue, turn, handling, chat_sessions,
                    next_session, messages, next_message_id,
                    placeholder_message, chunks, buffer_size, edit_calls,
                    in_flight, replies, fragments_total, environment, timing, chat >>

\* A trigger that fires on any unsent text.
FlushDue_AnyUnsent(full, last, size) == len(full) - len(last) > 0

\* A trigger that compares the whole text with the threshold.
FlushDue_Total(full, last, size) == len(full) > size

\* Line 169.
FlushDue(full, last, size) == len(full) - len(last) > size

\* Line 172.
IntermediateText(full) == full \o Cursor

\* Line 185.
FinalDue(full, last) == full # last

\* Line 187.
FinalText(full) == full

\* An edit call that targets the first message the bot ever sent.
EditCall_FirstMessage(text, final, n) ==
    [turn |-> turn, chat_id |-> handling.chat_id,
     message_id |-> 1, text |-> text, final |-> final,
     chunk |-> n, parse_mode |-> "MARKDOWN_V2",
     identical |-> (text = messages[placeholder_message].text),
     result |-> "in_flight"]

\* The call, with the number of chunks consumed when it is issued.
EditCall(text, final, n) ==
    [turn |-> turn, chat_id |-> handling.chat_id,
     message_id |-> placeholder_message, text |-> text, final |-> final,
     chunk |-> n,
     parse_mode |-> "MARKDOWN_V2",
     identical |-> (text = messages[placeholder_message].text),
     result |-> "in_flight"]

\* Lines 171-176 and 186-191 up to the await: the call is issued.
IssueEdit(text, final, n) ==
    /\ edit_calls' = Append(edit_calls, EditCall(text, final, n))
    /\ in_flight' = [in_flight EXCEPT ![placeholder_message] = @ + 1]

\* The edit started as a task and not awaited.
AfterIssue_NotAwaited == "loop"

\* Line 171: the handler awaits the edit it issued.
AfterIssue == "await_edit"

\* Lines 127-176: the next chunk arrives, is escaped and accumulated; the
\* intermediate edit is issued when the unsent text exceeds the buffer.
NextChunk(f) ==
    /\ pc = "loop"
    /\ f \in source
    /\ fragments_total < MaxFragments
    /\ fragments_total' = fragments_total + 1
    /\ chunks' = Append(chunks, f)
    /\ LET full == full_response_text \o Escaped[f] IN
        /\ full_response_text' = full
        /\ arrivals' = Append(arrivals,
                              [waited |-> since_flush,
                               unsent |-> len(full) - len(last_sent_text)])
        /\ IF FlushDue(full, last_sent_text, buffer_size)
           THEN /\ IssueEdit(IntermediateText(full), FALSE, Len(chunks) + 1)
                /\ pc' = AfterIssue
           ELSE /\ UNCHANGED << edit_calls, in_flight >>
                /\ pc' = "loop"
    /\ UNCHANGED << update_queue, turn, handling, chat_sessions,
                    next_session, messages, next_message_id,
                    placeholder_message, gen, last_sent_text, buffer_size,
                    replies, environment, since_flush, chat >>

\* last_sent_text moved forward whatever the edit answered.
SentAfterEdit_Always(r, full, last) == full

\* Lines 177-179: last_sent_text after the intermediate edit.
SentAfterEdit(r, full, last) == IF r = "ok" THEN full ELSE last

SetResult(r) == [edit_calls EXCEPT ![Len(edit_calls)].result = r]

\* An intermediate edit whose fatal errors leave the loop.
AfterEditError_Abort(r) == IF r = "fatal" THEN "except" ELSE "loop"

\* Where the handler goes when the intermediate edit raises (lines 179-182).
AfterEditError(r) == "loop"

\* Lines 171-182: the intermediate edit returns.
EditReturns(r) ==
    /\ pc = "await_edit"
    /\ r \in EditOutcomes(placeholder_message, edit_calls[Len(edit_calls)].text)
    /\ edit_calls' = SetResult(r)
    /\ in_flight' = [in_flight EXCEPT ![placeholder_message] = @ - 1]
    /\ last_sent_text' = SentAfterEdit(r, full_response_text, last_sent_text)
    /\ IF r = "ok"
       THEN /\ messages' = [messages EXCEPT ![placeholder_message].text =
                                edit_calls[Len(edit_calls)].text]
            /\ since_flush' = 0
            /\ pc' = "loop"
       ELSE /\ UNCHANGED << messages, since_flush >>
            /\ pc' = AfterEditError(r)
    /\ UNCHANGED << update_queue, turn, handling, chat_sessions,
                    next_session, next_message_id, placeholder_message, chunks,
                    gen, full_response_text, buffer_size, replies,
                    fragments_total, environment, arrivals, chat >>

\* Lines 127 and 185-191: the iterator is exhausted; the final edit.
StreamEnds ==
    /\ pc = "loop"
    /\ gen' = "ended"
    /\ IF FinalDue(full_response_text, last_sent_text)
       THEN /\ IssueEdit(FinalText(full_response_text), TRUE, Len(chunks))
            /\ pc' = "await_final"
       ELSE /\ UNCHANGED << edit_calls, in_flight >>
            /\ pc' = "done"
    /\ UNCHANGED << update_queue, turn, handling, chat_sessions,
                    next_session, messages, next_message_id,
                    placeholder_message, chunks, full_response_text,
                    last_sent_text, buffer_size, replies, fragments_total, environment, timing, chat >>

\* Line 127 (or 129, chunk.text of a blocked chunk): the source raises.
StreamRaises ==
    /\ pc = "loop"
    /\ gen' = "error"
    /\ pc' = "except"
    /\ UNCHANGED << update_queue, turn, handling, chat_sessions,
                    next_session, messages, next_message_id,
                    placeholder_message, chunks, full_response_text,
                    last_sent_text, buffer_size, edit_calls, in_flight, replies,
                    fragments_total, environment, timing, chat >>

\* Where the handler goes when the final edit raises (line 193).
AfterFinalError(r) == "except"

\* Lines 186-191: the final edit returns.
FinalEditReturns(r) ==
    /\ pc = "await_final"
    /\ r \in EditOutcomes(placeholder_message, edit_calls[Len(edit_calls)].text)
    /\ edit_calls' = SetResult(r)
    /\ in_flight' = [in_flight EXCEPT ![placeholder_message] = @ - 1]
    /\ IF r = "ok"
       THEN /\ messages' = [messages EXCEPT ![placeholder_message].text =
                                edit_calls[Len(edit_calls)].text]
            /\ pc' = "done"
       ELSE /\ UNCHANGED messages
            /\ pc' = AfterFinalError(r)
    /\ UNCHANGED << update_queue, turn, handling, chat_sessions,
                    next_session, next_message_id, handler_locals, buffer_size,
                    replies, fragments_total, environment, timing, chat >>

\* An except clause that only logs.
ApologyReplies_None(t, c) == <<>>

\* The replies the except clause sends (line 195).
ApologyReplies(t, c) == << [turn |-> t, chat_id |-> c, text |-> "apology"] >>

\* An except clause that also drops the chat's session.
SessionsAfterError_Dropped(sessions, c) == [sessions EXCEPT ![c] = NoSession]

\* Lines 193-195: the except clause leaves chat_sessions alone.
SessionsAfterError(sessions, c) == sessions

\* Lines 193-195.
ExceptHandler ==
    /\ pc = "except"
    /\ replies' = replies \o ApologyReplies(turn, handling.chat_id)
    /\ chat_sessions' = SessionsAfterError(chat_sessions, handling.chat_id)
    /\ pc' = "done"
    /\ UNCHANGED << update_queue, turn, handling,
                    next_session, messages, next_message_id, handler_locals,
                    buffer_size, edit_calls, in_flight, fragments_total, environment, timing, chat >>

Next ==
    \/ \E c \in Chats, k \in {"text", "new"} : ReceiveUpdate(c, k)
    \/ new_command
    \/ HandleMessage
    \/ StartSession
    \/ SendPlaceholder
    \/ SendRequest
    \/ \E f \in Fragments : NextChunk(f)
    \/ \E r \in {"ok", "not_modified", "malformed", "fatal"} : EditReturns(r)
    \/ StreamEnds
    \/ StreamRaises
    \/ \E r \in {"ok", "not_modified", "malformed", "fatal"} : FinalEditReturns(r)
    \/ ExceptHandler

Spec == Init /\ [][Next]_vars

\* ------------------------------------------------------------- the clock
\* The flush interval of the specification (1.0 to 1.5 time units); the
\* code holds no such constant.
FlushInterval == 1

\* More than the interval passes while the handler waits for the next chunk
\* (line 127); the clock tells no more than that the interval is exceeded.
Tick ==
    /\ pc = "loop"
    /\ since_flush <= FlushInterval
    /\ since_flush' = FlushInterval + 1
    /\ UNCHANGED << update_queue, turn, handling, pc, chat_sessions,
                    next_session, messages, next_message_id, handler_locals,
                    buffer_size, edit_calls, in_flight, replies,
                    fragments_total, environment, arrivals, chat >>

NextTimed == Next \/ Tick

InitTimed ==
    /\ InitWith(BUFFER_SIZE)
    /\ probe = NoProbe
    /\ source = {World, Long}

SpecTimed == InitTimed /\ [][NextTimed]_vars

\* The same program with the size threshold of the "Hello, world!" scenario.
InitHello ==
    /\ InitWith(HelloThreshold)
    /\ probe = NoProbe
    /\ source = {Hel, Lo, World}

SpecHello == InitHello /\ [][Next]_vars


\* ------------------------------------------------ the escape chain alone
MaxLen == 3

EscAlphabet == {"a", "_", ".", "\\", "E_ACUTE"}

Texts == UNION {[1..n -> EscAlphabet] : n \in 0..MaxLen}

\* The markup's rule for reading escaped text: a backslash followed by a
\* character denotes that character.
RECURSIVE markup_unescape(_)
markup_unescape(s) ==
    IF Len(s) = 0 THEN <<>>
    ELSE IF s[1] = "\\" /\ Len(s) >= 2
         THEN <<s[2]>> \o markup_unescape(SubSeq(s, 3, Len(s)))
         ELSE <<s[1]>> \o markup_unescape(Tail(s))

program_state ==
    << update_queue, turn, handling, pc, chat_sessions, next_session,
       messages, next_message_id, handler_locals, buffer_size, edit_calls,
       in_flight, replies, fragments_total, timing, chat >>

InitEscape ==
    /\ InitWith(BUFFER_SIZE)
    /\ probe \in {[step |-> "input", input |-> t, escaped |-> <<>>,
                   piecewise |-> {}, unescaped |-> <<>>] : t \in Texts}
    /\ source = {}

\* Lines 127-166 and 187 on the text t arriving as the two chunks it is cut
\* into after its first k characters: the text of the final edit.
Piecewise(t, k) ==
    FinalText((<<>> \o escape_chain(SubSeq(t, 1, k)))
              \o escape_chain(SubSeq(t, k + 1, Len(t))))

\* Lines 129-165 applied to one chunk text, and to the same text arriving
\* in two chunks, for every place it can be cut.
ApplyEscape ==
    /\ probe.step = "input"
    /\ probe' = [probe EXCEPT
                    !.step = "escaped",
                    !.escaped = escape_chain(probe.input),
                    !.piecewise = {Piecewise(probe.input, k) :
                                      k \in 0..Len(probe.input)}]
    /\ UNCHANGED << program_state, source >>

\* The renderer reads the escaped text.
ApplyUnescape ==
    /\ probe.step = "escaped"
    /\ probe' = [probe EXCEPT !.step = "unescaped",
                              !.unescaped = markup_unescape(probe.escaped)]
    /\ UNCHANGED << program_state, source >>

NextEscape == ApplyEscape \/ ApplyUnescape

SpecEscape == InitEscape /\ [][NextEscape]_vars

\* ------------------------------------------------------------ the claims
RECURSIVE Concat(_)
Concat(ss) == IF ss = <<>> THEN <<>> ELSE Head(ss) \o Concat(Tail(ss))

Calls == DOMAIN edit_calls
Displayed == messages[placeholder_message].text
AllEditsOk == \A i \in Calls : edit_calls[i].result = "ok"
Returned == pc = "done" /\ handling.kind = "text"
Apologies ==
    Cardinality({i \in DOMAIN replies : replies[i].text = "apology"})

\* C1: when the stream ended without error and every edit call succeeded,
\* the message shows, once handle_message has returned, exactly the escaped
\* concatenation of the fragments received: no cursor marker, no placeholder.
\* (Stated for the turns that received at least one fragment.)
C1_FinalTextIsEscapedConcatenation ==
    (Returned /\ gen = "ended" /\ chunks # <<>> /\ AllEditsOk)
        => Displayed = escape_chain(Concat(chunks))

\* C2: once the stream has ended without an upstream error, the handler has
\* issued exactly one final edit call, carrying the full accumulated text
\* without the cursor marker, whatever part of the text was already flushed.
\* (Stated for the turns that received at least one fragment.)
C2_FinalEditNeverSkipped ==
    (handling.kind = "text" /\ gen = "ended" /\ chunks # <<>>)
        => /\ Cardinality({i \in Calls : edit_calls[i].final}) = 1
           /\ \A i \in Calls :
                edit_calls[i].final => edit_calls[i].text = full_response_text

\* C3: when the final edit call was rejected as malformed markup, the handler
\* has retried once with the same full text as plain text by the time it
\* returns, and the turn has not failed.
C3_PlainTextRetry ==
    (Returned /\ \E i \in Calls :
                    edit_calls[i].final /\ edit_calls[i].result = "malformed")
        => /\ Cardinality({j \in Calls : edit_calls[j].parse_mode = "NONE"
                                         /\ edit_calls[j].text = full_response_text}) = 1
           /\ Apologies = 0

\* C4: when the generation source raised after k fragments, the handler has
\* issued, by the time it returns, a final edit call carrying the text
\* accumulated from those fragments (without cursor), and then the apology.
\* (Stated for the turns whose accumulated text was not yet sent.)
C4_FlushBeforeFailure ==
    (Returned /\ gen = "error" /\ full_response_text # last_sent_text)
        => /\ \E i \in Calls : /\ edit_calls[i].final
                               /\ edit_calls[i].text = full_response_text
           /\ Apologies = 1

\* C5: at most one edit call is in flight for any message identifier: the
\* only call of a turn that may not have returned is the one issued last, and
\* every edit call targets the message its own turn created.
C5_OneEditInFlight ==
    /\ \A m \in DOMAIN in_flight : in_flight[m] <= 1
    /\ \A i \in Calls :
        /\ edit_calls[i].result = "in_flight" => i = Len(edit_calls)
        /\ edit_calls[i].message_id \in DOMAIN messages
        /\ messages[edit_calls[i].message_id].turn = edit_calls[i].turn
        /\ messages[edit_calls[i].message_id].chat_id = edit_calls[i].chat_id

C5_Witness ==
    /\ Len(edit_calls) = 2
    /\ edit_calls[2].result = "in_flight"
    /\ in_flight[placeholder_message] = 1
    /\ placeholder_message = 2

\* C6: no edit call carries a text identical to what the message showed when
\* the call was issued (the placeholder, or the text of the last successful
\* edit with its cursor marker).
C6_NoIdenticalEdit ==
    \A i \in Calls : ~edit_calls[i].identical

\* C7: fragments "Hel", "lo, ", "world!" with threshold 4 and every edit
\* succeeding give exactly two edit calls: an intermediate one after the
\* second fragment showing "Hello, " and the cursor, then the final one
\* showing the escaped full text without cursor.
C7_HelloWorldScenario ==
    (Returned /\ gen = "ended" /\ chunks = <<Hel, Lo, World>> /\ AllEditsOk)
        => /\ Len(edit_calls) = 2
           /\ edit_calls[1].text = Hel \o Lo \o Cursor
           /\ ~edit_calls[1].final
           /\ edit_calls[2].text = escape_chain(Hel \o Lo \o World)
           /\ edit_calls[2].final

\* C8: when the source yields no fragment and signals a rejection, the turn
\* issues no edit call, the message keeps the placeholder, and the apology
\* is sent exactly once.
C8_RejectionWithoutFragments ==
    (Returned /\ gen = "error" /\ chunks = <<>>)
        => /\ edit_calls = <<>>
           /\ Displayed = Placeholder
           /\ Apologies = 1

C8_Witness ==
    /\ Returned /\ gen = "error" /\ chunks = <<>>
    /\ placeholder_message # NoMessage
    /\ Apologies = 1

\* C9: after an intermediate edit call failed as malformed, the stream goes
\* on: the failed edit is not issued again, and once the stream has ended the
\* final flush has been attempted with the full accumulated text.
C9_MalformedIntermediateSkipped ==
    \A i \in Calls :
        (~edit_calls[i].final /\ edit_calls[i].result = "malformed")
            => /\ pc # "except" \/ gen = "error"
                  \/ edit_calls[Len(edit_calls)].final
               /\ \A j \in Calls : j # i => edit_calls[j].text # edit_calls[i].text
               /\ gen = "ended" =>
                    \E j \in Calls : /\ edit_calls[j].final
                                     /\ edit_calls[j].text = full_response_text

\* C10: un-escaping the escaped text gives back the input, for every text
\* over reserved characters, the backslash and ordinary characters.
C10_EscapeRoundTrip ==
    probe.step = "unescaped" => probe.unescaped = probe.input


\* C11: while a turn of one chat waits for its next fragment, an update of
\* another chat that is waiting in the queue can be dispatched.
C11_OtherChatProgresses ==
    (/\ pc = "loop"
     /\ update_queue # <<>>
     /\ Head(update_queue).chat_id # handling.chat_id)
        => ENABLED (HandleMessage \/ new_command)


\* C12 as stated: once any edit call of the turn, intermediate or final, has
\* failed with a fatal transport error, it is the last call, no further
\* fragment is consumed, and the handler ends with the error reply sent once.
C12_FatalAbortsTurn ==
    \A i \in Calls :
        edit_calls[i].result = "fatal"
            => /\ i = Len(edit_calls)
               /\ edit_calls[i].chunk = Len(chunks)
               /\ pc \in {"except", "done"}
               /\ pc = "done" => Apologies = 1

\* C12 as amended: a fatal error of the final edit aborts the turn (no
\* further fragment, no further edit) and the error reply is sent exactly
\* once; a fatal error of an intermediate edit is only logged, the handler is
\* back in the loop and no error reply is sent for it.
C12_FatalFinalAbortsIntermediateLogged ==
    \A i \in Calls :
        /\ (edit_calls[i].final /\ edit_calls[i].result = "fatal")
            => /\ i = Len(edit_calls)
               /\ edit_calls[i].chunk = Len(chunks)
               /\ pc \in {"except", "done"}
               /\ Apologies = IF pc = "done" THEN 1 ELSE 0
        /\ (/\ ~edit_calls[i].final
            /\ edit_calls[i].result = "fatal"
            /\ i = Len(edit_calls)
            /\ edit_calls[i].chunk = Len(chunks)
            /\ gen = "streaming")
            => /\ pc = "loop"
               /\ Apologies = 0

C12_Witness ==
    /\ Returned
    /\ Len(edit_calls) > 1
    /\ ~edit_calls[1].final /\ edit_calls[1].result = "fatal"
    /\ edit_calls[1].chunk < Len(chunks)
    /\ edit_calls[Len(edit_calls)].final
    /\ edit_calls[Len(edit_calls)].result = "fatal"
    /\ Apologies = 1


\* C13: an edit call rejected as not modified, intermediate or final, is
\* ignored: it never sends the handler to the outer except and the turn ends
\* without the error reply.
C13_NotModifiedIgnored ==
    (\E i \in Calls : edit_calls[i].result = "not_modified")
        => /\ pc # "except"
           /\ Apologies = 0


\* The intermediate edit calls issued at the arrival of fragment number k.
IntermediateAt(k) ==
    { i \in Calls : ~edit_calls[i].final /\ edit_calls[i].chunk = k }

\* C14 as stated: a fragment that arrives when more than the flush interval
\* has elapsed since the last flush gets an intermediate edit, whatever the
\* length of the unflushed text, and so does a fragment that takes the
\* unflushed text over the size threshold.
C14_TimeOrSizeTrigger ==
    \A k \in DOMAIN arrivals :
        (/\ handling.kind = "text"
         /\ \/ arrivals[k].waited > FlushInterval
            \/ arrivals[k].unsent > buffer_size)
            => IntermediateAt(k) # {}

\* C14 as amended: the size of the unflushed text is the only trigger. A
\* fragment gets an intermediate edit exactly when it takes the unflushed
\* text over the threshold, however long the wait since the last flush.
C14_SizeTriggerOnly ==
    handling.kind = "text" =>
        \A k \in DOMAIN arrivals :
            IntermediateAt(k) # {} <=> arrivals[k].unsent > buffer_size

C14_Witness ==
    \E k \in DOMAIN arrivals :
        /\ handling.kind = "text"
        /\ arrivals[k].waited > FlushInterval
        /\ arrivals[k].unsent <= buffer_size
        /\ IntermediateAt(k) = {}
        /\ \E j \in DOMAIN arrivals :
            /\ j < k
            /\ IntermediateAt(j) # {}


\* C15: the text of an edit, built by escaping each fragment and appending
\* it, equals the escape chain applied to the whole raw text, wherever the
\* raw text is cut into fragments.
C15_EscapeDistributesOverSplits ==
    probe.step # "input" => probe.piecewise = {FinalText(probe.escaped)}

C15_Witness ==
    /\ probe.step = "escaped"
    /\ Len(probe.input) > 1
    /\ probe.input[1] = "_"
    /\ probe.input[Len(probe.input)] = "_"
    /\ probe.piecewise = {probe.escaped}
    /\ Len(probe.escaped) > Len(probe.input) + 1


\* The text of an intermediate edit without the cursor appended on line 172.
WithoutCursor(text) == SubSeq(text, 1, Len(text) - Len(Cursor))

IsPrefix(s, t) == Len(s) <= Len(t) /\ SubSeq(t, 1, Len(s)) = s

\* The successful intermediate edit calls of the turn.
Flushed == { i \in Calls : ~edit_calls[i].final /\ edit_calls[i].result = "ok" }

\* C16: during a turn last_sent_text is a prefix of full_response_text, and
\* it is the text, without cursor, of the latest successful intermediate
\* edit (empty when there is none): failed edits, the final edit and the
\* arrival of fragments leave it alone.
C16_CommittedTextIsLastFlush ==
    handling.kind = "text" =>
        /\ IsPrefix(last_sent_text, full_response_text)
        /\ last_sent_text =
            IF Flushed = {} THEN <<>>
            ELSE LET latest == CHOOSE i \in Flushed : \A j \in Flushed : j <= i
                 IN  WithoutCursor(edit_calls[latest].text)

C16_Witness ==
    /\ handling.kind = "text"
    /\ pc = "loop"
    /\ \E i \in Flushed :
        \E j \in Calls :
            /\ i < j
            /\ ~edit_calls[j].final
            /\ edit_calls[j].result \in {"malformed", "fatal"}
    /\ last_sent_text # <<>>
    /\ last_sent_text # full_response_text


\* The session identifiers held by the map.
Sessions(map) == { map[c] : c \in Chats } \ {NoSession}

C18_SessionSurvivesUpstreamError ==
    (Returned /\ gen = "error")
        => /\ Apologies = 1
           /\ chat # NoSession
           /\ chat_sessions[handling.chat_id] = chat

C18_Witness ==
    /\ turn > 1
    /\ Returned
    /\ gen = "error"
    /\ Apologies = 1
    /\ next_session = 2
    /\ chat_sessions[handling.chat_id] = 1


\* C19: a turn that has consumed n fragments has issued at most n + 1 edit
\* calls, at most one intermediate call per fragment and at most one final
\* call; each successful intermediate edit covers more than buffer_size new
\* characters, so their number times buffer_size + 1 is at most the length
\* of the accumulated text; and after an intermediate edit that failed, an
\* edit is issued at every following fragment until one succeeds.
C19_EditCallsBounded ==
    handling.kind = "text" =>
        /\ Len(edit_calls) <= Len(chunks) + 1
        /\ \A k \in DOMAIN chunks : Cardinality(IntermediateAt(k)) <= 1
        /\ Cardinality({ i \in Calls : edit_calls[i].final }) <= 1
        /\ Cardinality(Flushed) * (buffer_size + 1) <= len(full_response_text)
        /\ \A i \in Calls :
            (/\ ~edit_calls[i].final
             /\ edit_calls[i].result \in {"not_modified", "malformed", "fatal"})
                => \A k \in DOMAIN chunks :
                    (/\ k > edit_calls[i].chunk
                     /\ \A j \in Flushed :
                            ~ (/\ edit_calls[j].chunk > edit_calls[i].chunk
                               /\ edit_calls[j].chunk < k))
                        => IntermediateAt(k) # {}

C19_Witness ==
    /\ Returned
    /\ Len(chunks) > 2
    /\ Len(edit_calls) > 2
    /\ ~edit_calls[1].final /\ edit_calls[1].result = "fatal"
    /\ edit_calls[2].chunk = edit_calls[1].chunk + 1
    /\ 2 \in Flushed
    /\ IntermediateAt(edit_calls[2].chunk + 1) = {}
    /\ edit_calls[Len(edit_calls)].final


\* The placeholder replies of the turn.
Placeholders ==
    Cardinality({ i \in DOMAIN replies : replies[i].text = "placeholder" })

====
